---- MODULE Spec2Model ----
(***************************************************************************)
(* irc_hook: a relay from an IRC line stream to an HTTP webhook.           *)
(*                                                                         *)
(* The repository holds two snapshots of the program:                      *)
(*   "main_rs" - src/src/main.rs: the consumer loop, the MessageHandler    *)
(*               with single-line and multi-line matching, and a           *)
(*               WebhookPublisher posting a fixed JSON body;               *)
(*   "modules" - src/src/message_handler.rs (single-line MessageHandler)   *)
(*               with src/src/webhook_publisher.rs (templated body and     *)
(*               headers).                                                 *)
(* Strings are sequences of one-character strings.  Option<T> is a         *)
(* sequence of length 0 (None) or 1 (Some).                                *)
(***************************************************************************)
EXTENDS Integers, Sequences, FiniteSets, TLC

(***************************************************************************)
(* Bounds of the model.                                                    *)
(***************************************************************************)
\* the stream delivers at most MaxLines raw lines
MaxLines == 5

\* get_content called on its own: raw lines of at most MaxRaw characters
MaxRaw == 5

\* templ_replace called on its own: templates of at most MaxPieces pieces and
\* groups of at most MaxValues values
MaxPieces == 2

MaxValues == 2

(***************************************************************************)
(* Characters.  "^" stands for a control byte (IRC formatting codes such   *)
(* as 0x02), which the regex "." matches and http::HeaderValue rejects.    *)
(***************************************************************************)
Digit == {"0", "1", "2", "3", "4", "5", "6", "7", "8", "9"}

Whitespace == {" ", "\n", "\r", "\t"}

Ctl == {"^", "\n", "\r"}

None == << >>

Some(v) == << v >>

(***************************************************************************)
(* str::trim: leading and trailing whitespace removed.                     *)
(***************************************************************************)
RECURSIVE TrimStart(_)
TrimStart(s) ==
    IF s # << >> /\ Head(s) \in Whitespace THEN TrimStart(Tail(s)) ELSE s

RECURSIVE TrimEnd(_)
TrimEnd(s) ==
    IF s # << >> /\ s[Len(s)] \in Whitespace
    THEN TrimEnd(SubSeq(s, 1, Len(s) - 1))
    ELSE s

Trim(s) == TrimEnd(TrimStart(s))

(***************************************************************************)
(* get_content: skip the first character, find the next ':', and return    *)
(* what follows it, trimmed; None when there is no such ':'.               *)
(***************************************************************************)
\* an extractor that cuts at the last ':' instead of the next one
get_content_last(m) ==
    LET chrs == IF m = << >> THEN << >> ELSE Tail(m)
        hits == {i \in 1..Len(chrs) : chrs[i] = ":"}
    IN  IF hits # {}
        THEN LET i == CHOOSE k \in hits : \A j \in hits : k >= j
             IN  Some(Trim(SubSeq(chrs, i + 1, Len(chrs))))
        ELSE None

get_content(m) ==
    LET chrs == IF m = << >> THEN << >> ELSE Tail(m)
        hits == {i \in 1..Len(chrs) : chrs[i] = ":"}
    IN  IF hits # {}
        THEN LET i == CHOOSE k \in hits : \A j \in hits : k <= j
             IN  Some(Trim(SubSeq(chrs, i + 1, Len(chrs))))
        ELSE None

(***************************************************************************)
(* The regex crate, for the patterns the model configures:                 *)
(*   [kind |-> "lit", lit |-> w]   the literal w (w = << >>: the pattern   *)
(*                                 "", which matches the empty string)     *)
(*   [kind |-> "dcd"]              \d(.+?)\d   (the tests' search pattern) *)
(*   [kind |-> "opt"]              x(.)?       (a group that may not       *)
(*                                 participate in the match)               *)
(* MatchAt is the match that starts at position b, as                      *)
(* [e |-> position after the match, caps |-> <<Option<String>>>], or       *)
(* NoMatch.  caps[1] is the whole match.                                   *)
(***************************************************************************)
NoMatch == [e |-> 0, caps |-> << >>]

Lit(w) == [kind |-> "lit", lit |-> w]

Dcd == [kind |-> "dcd", lit |-> << >>]

Opt == [kind |-> "opt", lit |-> << >>]

\* a pattern string that is no regular expression, such as "("
Invalid == [kind |-> "invalid", lit |-> << >>]

\* Regex::new(pattern).is_ok()
Compiles(pat) == pat.kind # "invalid"

MatchAt(pat, s, b) ==
    CASE pat.kind = "lit" ->
            IF b + Len(pat.lit) - 1 <= Len(s)
               /\ SubSeq(s, b, b + Len(pat.lit) - 1) = pat.lit
            THEN [e |-> b + Len(pat.lit), caps |-> << Some(pat.lit) >>]
            ELSE NoMatch
      [] pat.kind = "dcd" ->
            LET ends == {j \in (b + 2)..Len(s) :
                            /\ s[j] \in Digit
                            /\ \A k \in (b + 1)..(j - 1) : s[k] # "\n"}
            IN  IF b <= Len(s) /\ s[b] \in Digit /\ ends # {}
                THEN LET j == CHOOSE k \in ends : \A l \in ends : k <= l
                     IN  [e |-> j + 1,
                          caps |-> << Some(SubSeq(s, b, j)),
                                      Some(SubSeq(s, b + 1, j - 1)) >>]
                ELSE NoMatch
      [] pat.kind = "opt" ->
            IF b <= Len(s) /\ s[b] = "x"
            THEN IF b + 1 <= Len(s) /\ s[b + 1] # "\n"
                 THEN [e |-> b + 2,
                       caps |-> << Some(SubSeq(s, b, b + 1)),
                                   Some(SubSeq(s, b + 1, b + 1)) >>]
                 ELSE [e |-> b + 1, caps |-> << Some(<< s[b] >>), None >>]
            ELSE NoMatch

\* the leftmost position >= i where the pattern matches, 0 when there is none
FindFrom(pat, s, i) ==
    LET starts == {b \in i..(Len(s) + 1) : MatchAt(pat, s, b) # NoMatch}
    IN  IF starts = {} THEN 0
        ELSE CHOOSE b \in starts : \A c \in starts : b <= c

is_match(pat, s) == FindFrom(pat, s, 1) # 0

(***************************************************************************)
(* Regex::captures_iter: the successive non-overlapping matches, left to   *)
(* right; the search resumes where the previous match ended (one further   *)
(* on after an empty match).                                               *)
(***************************************************************************)
RECURSIVE captures_iter(_, _, _)
captures_iter(pat, s, i) ==
    LET b == FindFrom(pat, s, i)
    IN  IF b = 0 THEN << >>
        ELSE LET m == MatchAt(pat, s, b)
             IN  << m.caps >>
                 \o captures_iter(pat, s, IF m.e = b THEN b + 1 ELSE m.e)

(***************************************************************************)
(* match_groups: per match, the groups that took part in it (filter_map    *)
(* drops a group that did not), group 0 first.                             *)
(***************************************************************************)
RECURSIVE Flatten(_)
Flatten(opts) ==
    IF opts = << >> THEN << >> ELSE Head(opts) \o Flatten(Tail(opts))

match_groups(re, content) ==
    LET caps == captures_iter(re, content, 1)
    IN  [k \in 1..Len(caps) |-> Flatten(caps[k])]

(***************************************************************************)
(* [String]::join(" ").                                                    *)
(***************************************************************************)
RECURSIVE join(_)
join(lines) ==
    IF lines = << >> THEN << >>
    ELSE IF Len(lines) = 1 THEN lines[1]
    ELSE lines[1] \o << " " >> \o join(Tail(lines))

(***************************************************************************)
(* templ_replace: for idx = 0, 1, ... the token "${idx}" is replaced by    *)
(* group[idx] (str::replace: every non-overlapping occurrence, left to     *)
(* right), each pass on the result of the pass before.                     *)
(***************************************************************************)
DigitChars == << "0", "1", "2", "3", "4", "5", "6", "7", "8", "9" >>

RECURSIVE ToDec(_)
ToDec(n) ==
    IF n < 10 THEN << DigitChars[n + 1] >>
    ELSE ToDec(n \div 10) \o << DigitChars[(n % 10) + 1] >>

\* format!("${{{}}}", idx)
repl_idx(idx) == << "$", "{" >> \o ToDec(idx) \o << "}" >>

\* a replace that stops after the first occurrence (str::replacen(.., 1))
replace_first(s, from, to) ==
    LET hits == {p \in 1..(Len(s) - Len(from) + 1) :
                    SubSeq(s, p, p + Len(from) - 1) = from}
    IN  IF hits = {} THEN s
        ELSE LET p == CHOOSE q \in hits : \A r \in hits : q <= r
             IN  SubSeq(s, 1, p - 1) \o to \o SubSeq(s, p + Len(from), Len(s))

RECURSIVE replace(_, _, _)
replace(s, from, to) ==
    IF Len(s) < Len(from) THEN s
    ELSE IF SubSeq(s, 1, Len(from)) = from
         THEN to \o replace(SubSeq(s, Len(from) + 1, Len(s)), from, to)
         ELSE << Head(s) >> \o replace(Tail(s), from, to)

RECURSIVE fold_replace(_, _, _)
fold_replace(body, group, idx) ==
    IF idx >= Len(group) THEN body
    ELSE fold_replace(replace(body, repl_idx(idx), group[idx + 1]), group, idx + 1)

templ_replace(templ, group) == fold_replace(templ, group, 0)

(***************************************************************************)
(* to_headers: every header template rendered and parsed as a HeaderValue. *)
(* HeaderValue::from_str rejects control bytes, and the unwrap() on its    *)
(* result panics: the outcome is then None.                                *)
(***************************************************************************)
ValidHeaderValue(v) == \A i \in 1..Len(v) : v[i] \notin Ctl

to_headers(hdrs, group) ==
    LET rendered == [k \in DOMAIN hdrs |-> templ_replace(hdrs[k], group)]
    IN  IF \A k \in DOMAIN hdrs : ValidHeaderValue(rendered[k])
        THEN Some(rendered)
        ELSE None

(***************************************************************************)
(* Inputs and configurations.                                              *)
(***************************************************************************)
Raw(payload) == << ":", "u", ":" >> \o payload

\* the raw lines the stream may deliver
RawLines ==
    { << ":", "u" >>,
      Raw(<< "x" >>),
      Raw(<< "S" >>),
      Raw(<< "F" >>),
      Raw(<< " ", "1", " " >>),
      Raw(<< "1", "x", "1" >>),
      Raw(<< "S", "1", "^", "1", "F" >>),
      Raw(<< "x", "a", "x", "^" >>) }

\* single-line mode is run with both search patterns, multi-line mode with
\* the tests' pattern
SearchPatterns == {Dcd, Opt}

MultiLineSearchPatterns == {Dcd}

InitPatterns == {Lit(<< "S" >>)}

ConcludePatterns == {Lit(<< >>), Lit(<< "F" >>)}

\* main.rs:38 passes 4; 1 and 2 are the smallest windows
LineLimits == {1, 2, 4}

Templates == { << "m", "=", "$", "{", "1", "}" >> }

HeaderMaps ==
    { [h \in {"X-Api-Key"} |-> << "k" >>],
      [h \in {"X-Api-Key"} |-> << "$", "{", "1", "}" >>] }

\* the body main.rs posts: the map {"lang": "rust", "body": "json"}
JsonMap == << "{\"lang\":\"rust\",\"body\":\"json\"}" >>

(***************************************************************************)
(* State.                                                                  *)
(*   variant                 which snapshot runs                           *)
(*   search_pattern .. lines_buffer   the MessageHandler's fields          *)
(*   template, headers       the WebhookPublisher's fields                 *)
(*   pc       where the consumer (main) is: "new" before the handler is    *)
(*            constructed, "next" at stream.next().await,                  *)
(*            "join" suspended in publish at join_all(tasks).await,        *)
(*            "done" returned Ok(()), "failed" returned the stream's Err,  *)
(*            "panicked" unwound by a panic                                *)
(*   nread    lines the stream has delivered                               *)
(*   handled  calls of handle_msg that have returned                       *)
(*   tasks    the tasks spawned on the runtime whose JoinHandle has not    *)
(*            been joined                                                  *)
(*   payloads the delivered lines that carried a payload                   *)
(*   message, before, candidate, params, published                         *)
(*            the latest handle_msg call: its raw line, lines_buffer when  *)
(*            it was called, the joined candidate it built (Option), the   *)
(*            argument it gave to publish and whether it called publish    *)
(*   fn, arg, result                                                       *)
(*            a pure function called on its own (get_content,              *)
(*            templ_replace): its name once called, its arguments and what *)
(*            it returned; unused while the program runs                   *)
(***************************************************************************)
VARIABLES variant, search_pattern, multi_line, line_limit, line_init_pattern,
          line_conclude_pattern, lines_buffer, template, headers,
          pc, nread, handled, tasks,
          message, payloads, before, candidate, params, published,
          fn, arg, result

config == << variant, search_pattern, multi_line, line_limit,
             line_init_pattern, line_conclude_pattern, template, headers >>

vars == << variant, search_pattern, multi_line, line_limit, line_init_pattern,
           line_conclude_pattern, lines_buffer, template, headers,
           pc, nread, handled, tasks,
           message, payloads, before, candidate, params, published,
           fn, arg, result >>

\* a pure function called on its own
call == << fn, arg, result >>

\* the program's own state
program == << variant, search_pattern, multi_line, line_limit,
             line_init_pattern, line_conclude_pattern, lines_buffer, template,
             headers, pc, nread, handled, tasks,
             message, payloads, before, candidate, params, published >>

(***************************************************************************)
(* MessageHandler::new and WebhookPublisher::new, per snapshot.            *)
(***************************************************************************)
InitMainRs ==
    /\ variant = "main_rs"
    /\ multi_line \in BOOLEAN
    /\ IF multi_line
       THEN /\ search_pattern \in MultiLineSearchPatterns
            /\ line_limit \in LineLimits
            /\ line_init_pattern \in InitPatterns
            /\ line_conclude_pattern \in ConcludePatterns
       ELSE /\ search_pattern \in SearchPatterns
            /\ line_limit = 0
            /\ line_init_pattern = Lit(<< >>)
            /\ line_conclude_pattern = Lit(<< >>)
    /\ template = << >>
    /\ headers = [h \in {"X-Api-Key"} |-> << "k" >>]

InitModules ==
    /\ variant = "modules"
    /\ search_pattern \in SearchPatterns
    /\ multi_line = FALSE
    /\ line_limit = 0
    /\ line_init_pattern = Lit(<< >>)
    /\ line_conclude_pattern = Lit(<< >>)
    /\ template \in Templates
    /\ headers \in HeaderMaps

NoCall ==
    /\ fn = ""
    /\ arg = << >>
    /\ result = None

ProgramInit ==
    /\ InitMainRs \/ InitModules
    /\ lines_buffer = << >>
    /\ pc = "next"
    /\ nread = 0
    /\ handled = 0
    /\ tasks = << >>
    /\ message = << >>
    /\ payloads = 0
    /\ before = << >>
    /\ candidate = None
    /\ params = << >>
    /\ published = FALSE

Init == ProgramInit /\ NoCall

(***************************************************************************)
(* MessageHandler::handle_msg up to its call of publish, as                *)
(*   [buffer    |-> lines_buffer afterwards,                               *)
(*    candidate |-> Option: the joined text matched on a conclusion,       *)
(*    publish   |-> whether publish is called,                             *)
(*    groups    |-> its argument].                                         *)
(***************************************************************************)
Quiet(buffer) ==
    [buffer |-> buffer, candidate |-> None, publish |-> FALSE, groups |-> << >>]

single_line(content) ==
    IF ~is_match(search_pattern, content)
    THEN Quiet(lines_buffer)
    ELSE [buffer |-> lines_buffer, candidate |-> None, publish |-> TRUE,
          groups |-> match_groups(search_pattern, content)]

\* a conclude test that forgets the `!= ""` guard
concluded_unguarded(buffer, content) ==
    \/ Len(buffer) = line_limit
    \/ is_match(line_conclude_pattern, content)

\* a limit test that counts the line being handled twice
concluded_early(buffer, content) ==
    \/ Len(buffer) + 1 >= line_limit
    \/ /\ line_conclude_pattern # Lit(<< >>)
       /\ is_match(line_conclude_pattern, content)

concluded(buffer, content) ==
    \/ Len(buffer) = line_limit
    \/ /\ line_conclude_pattern # Lit(<< >>)
       /\ is_match(line_conclude_pattern, content)

\* an Idle branch that opens a window on any payload
multi_line_idle_unchecked(content) == Quiet(Append(lines_buffer, content))

multi_line_idle(content) ==
    IF is_match(line_init_pattern, content)
    THEN Quiet(Append(lines_buffer, content))
    ELSE Quiet(lines_buffer)

\* a conclusion that clears the buffer only when the candidate matched
multi_line_accumulating_keep(content) ==
    LET pushed == Append(lines_buffer, content)
    IN  IF concluded(pushed, content)
        THEN LET total == join(pushed)
                 groups == match_groups(search_pattern, total)
             IN  [buffer |-> IF groups = << >> THEN pushed ELSE << >>,
                  candidate |-> Some(total), publish |-> TRUE,
                  groups |-> groups]
        ELSE Quiet(pushed)

\* an Accumulating branch in which an init match restarts the window
multi_line_accumulating_restart(content) ==
    LET pushed == IF is_match(line_init_pattern, content)
                  THEN << content >>
                  ELSE Append(lines_buffer, content)
    IN  IF concluded(pushed, content)
        THEN LET total == join(pushed)
             IN  [buffer |-> << >>, candidate |-> Some(total), publish |-> TRUE,
                  groups |-> match_groups(search_pattern, total)]
        ELSE Quiet(pushed)

multi_line_accumulating(content) ==
    LET pushed == Append(lines_buffer, content)
    IN  IF concluded(pushed, content)
        THEN LET total == join(pushed)
             IN  [buffer |-> << >>, candidate |-> Some(total), publish |-> TRUE,
                  groups |-> match_groups(search_pattern, total)]
        ELSE Quiet(pushed)

\* main.rs compiles the three patterns in every handle_msg call that has a
\* payload, and unwrap() panics on one that does not compile;
\* message_handler.rs compiled its pattern in new
regex_unwrap_panics(msg) ==
    /\ variant = "main_rs"
    /\ get_content(msg) # None
    /\ ~(/\ Compiles(search_pattern)
         /\ Compiles(line_init_pattern)
         /\ Compiles(line_conclude_pattern))

\* a handler that takes an extraction miss for an empty payload
handle_msg_unwrapped(msg) ==
    LET content == IF get_content(msg) = None THEN Some(<< >>)
                   ELSE get_content(msg)
    IN  IF ~multi_line THEN single_line(content[1])
        ELSE IF Len(lines_buffer) = 0 THEN multi_line_idle(content[1])
        ELSE multi_line_accumulating(content[1])

handle_msg(msg) ==
    LET content == get_content(msg)
    IN  IF content = None THEN Quiet(lines_buffer)
        ELSE IF ~multi_line THEN single_line(content[1])
        ELSE IF Len(lines_buffer) = 0 THEN multi_line_idle(content[1])
        ELSE multi_line_accumulating(content[1])

(***************************************************************************)
(* WebhookPublisher::publish up to its join_all(tasks).await, as           *)
(*   [spawned |-> the tasks spawned, in order, panic |-> whether it        *)
(*    unwound before the join].                                            *)
(* A task is [line, set, group, body, hdrs, st]: the line and the index of *)
(* the capture-group set it was spawned for, the request it posts, and     *)
(* st: "inflight" (the POST is awaited), "ok" / "err" (send() returned     *)
(* Ok / Err and the task finished), "aborted" (dropped with the runtime).  *)
(***************************************************************************)
\* main.rs: the task posts the fixed map; nothing is built from p_set
spawn_main(p_set, k, line) ==
    [line |-> line, set |-> k, group |-> p_set, body |-> JsonMap,
     hdrs |-> headers, st |-> "inflight"]

\* webhook_publisher.rs: body and headers are rendered before the spawn
publish_group(group, k, line) ==
    [line |-> line, set |-> k, group |-> group,
     body |-> templ_replace(template, group),
     hdrs |-> to_headers(headers, group)[1], st |-> "inflight"]

publish_main(groups, line) ==
    [spawned |-> [k \in 1..Len(groups) |-> spawn_main(groups[k], k, line)],
     panic |-> FALSE]

publish_modules(groups, line) ==
    LET bad == {k \in 1..Len(groups) : to_headers(headers, groups[k]) = None}
        n   == IF bad = {} THEN Len(groups)
               ELSE (CHOOSE k \in bad : \A j \in bad : k <= j) - 1
    IN  [spawned |-> [k \in 1..n |-> publish_group(groups[k], k, line)],
         panic |-> bad # {}]

publish(groups, line) ==
    IF variant = "main_rs" THEN publish_main(groups, line)
    ELSE publish_modules(groups, line)

\* a publish that does not wait for its tasks
join_all_unawaited(ts) == TRUE

\* join_all(tasks) is ready once every JoinHandle has resolved
join_all(ts) == \A i \in DOMAIN ts : ts[i].st # "inflight"

\* where the consumer is after the synchronous part of publish
after_publish(p) ==
    IF p.panic THEN "panicked"
    ELSE IF join_all(p.spawned) THEN "next"
    ELSE "join"

InFlight(t) == t.st = "inflight"

(***************************************************************************)
(* main: `while let Some(message) = stream.next().await.transpose()?`      *)
(***************************************************************************)
\* a loop that goes on polling the stream after it has yielded an error
polls_stream_after_error == pc \in {"next", "failed"}

\* the consumer is at stream.next().await: the loop has not been left
polls_stream == pc = "next"

\* the stream yields Some(Ok(message)); handle_msg(message) runs up to its
\* first suspension (or to its return)
Recv(raw) ==
    /\ polls_stream
    /\ nread < MaxLines
    /\ LET r == IF regex_unwrap_panics(raw) THEN Quiet(lines_buffer)
                ELSE handle_msg(raw)
           p == IF r.publish THEN publish(r.groups, nread + 1)
                ELSE [spawned |-> << >>, panic |-> FALSE]
           to == IF regex_unwrap_panics(raw) THEN "panicked"
                 ELSE after_publish(p)
       IN  /\ nread' = nread + 1
           /\ message' = raw
           /\ payloads' = IF get_content(raw) = None THEN payloads
                          ELSE payloads + 1
           /\ before' = lines_buffer
           /\ lines_buffer' = r.buffer
           /\ candidate' = r.candidate
           /\ params' = r.groups
           /\ published' = r.publish
           /\ tasks' = SelectSeq(tasks, InFlight) \o p.spawned
           /\ pc' = to
           /\ handled' = IF to = "next" THEN handled + 1 ELSE handled
    /\ UNCHANGED << config, call >>

\* a spawned task's send().await returns: Ok(response) or Err(error)
Complete(i, res) ==
    /\ i \in DOMAIN tasks
    /\ tasks[i].st = "inflight"
    /\ tasks' = [tasks EXCEPT ![i].st = res]
    /\ UNCHANGED << call, config, lines_buffer, pc, nread, handled,
                    message, payloads, before, candidate, params, published >>

\* join_all resolves: publish returns (its JoinHandles are dropped with their
\* results), then handle_msg returns
Return ==
    /\ pc = "join"
    /\ join_all(tasks)
    /\ pc' = "next"
    /\ handled' = handled + 1
    /\ tasks' = SelectSeq(tasks, InFlight)
    /\ UNCHANGED << call, config, lines_buffer, nread,
                    message, payloads, before, candidate, params, published >>

\* the stream yields None: main returns Ok(())
StreamEnd ==
    /\ pc = "next"
    /\ pc' = "done"
    /\ UNCHANGED << call, config, lines_buffer, nread, handled, tasks,
                    message, payloads, before, candidate, params, published >>

\* the stream yields Some(Err(e)): `?` returns it from main
StreamErr ==
    /\ pc = "next"
    /\ pc' = "failed"
    /\ UNCHANGED << call, config, lines_buffer, nread, handled, tasks,
                    message, payloads, before, candidate, params, published >>

\* after a panic main unwinds and the runtime is dropped with its tasks
Abort ==
    /\ pc = "panicked"
    /\ \E i \in DOMAIN tasks : tasks[i].st = "inflight"
    /\ tasks' = [i \in DOMAIN tasks |->
                    IF tasks[i].st = "inflight"
                    THEN [tasks[i] EXCEPT !.st = "aborted"]
                    ELSE tasks[i]]
    /\ UNCHANGED << call, config, lines_buffer, pc, nread, handled,
                    message, payloads, before, candidate, params, published >>

Next ==
    \/ \E raw \in RawLines : Recv(raw)
    \/ \E i \in DOMAIN tasks : \E res \in {"ok", "err"} : Complete(i, res)
    \/ Return
    \/ StreamEnd
    \/ StreamErr
    \/ Abort

Spec == Init /\ [][Next]_vars

(***************************************************************************)
(* What the claims speak of.                                               *)
(***************************************************************************)
\* the latest handled line carried a payload
HasPayload == nread > 0 /\ get_content(message) # None

Payload == get_content(message)[1]

\* the tasks spawned for line n
TasksOf(n) == SelectSeq(tasks, LAMBDA t : t.line = n)

\* lines joined by single spaces, built from the last line backwards
RECURSIVE SpaceJoined(_)
SpaceJoined(lines) ==
    IF Len(lines) = 0 THEN << >>
    ELSE IF Len(lines) = 1 THEN lines[1]
    ELSE SpaceJoined(SubSeq(lines, 1, Len(lines) - 1))
         \o << " " >> \o lines[Len(lines)]

\* a step in which the stream delivers a line and handle_msg is called
Delivered == nread' = nread + 1

(***************************************************************************)
(* C1: in multi-line mode, a payload handled while the buffer is empty     *)
(* leaves the buffer [payload] if it matches the init pattern and empty    *)
(* otherwise; either way nothing is matched, publish is not called and no  *)
(* request is spawned for the line, whatever else the payload matches.     *)
(***************************************************************************)
C1_IdleNeverDispatches ==
    (multi_line /\ HasPayload /\ before = << >>) =>
        /\ lines_buffer = IF is_match(line_init_pattern, Payload)
                          THEN << Payload >> ELSE << >>
        /\ ~published
        /\ params = << >>
        /\ candidate = None
        /\ TasksOf(nread) = << >>
        /\ pc \in {"next", "done", "failed"}

\* an init line that the search and the conclude pattern match as well
C1_Witness ==
    /\ multi_line /\ HasPayload /\ before = << >>
    /\ is_match(line_init_pattern, Payload)
    /\ is_match(search_pattern, Payload)
    /\ line_conclude_pattern # Lit(<< >>)
    /\ is_match(line_conclude_pattern, Payload)
    /\ lines_buffer = << Payload >>
    /\ handled = nread

(***************************************************************************)
(* C2: in multi-line mode, a payload handled while the buffer is not empty *)
(* is appended; the buffer concludes on it exactly when its length is now  *)
(* line_limit or a non-empty conclude pattern matches the payload.  On a   *)
(* conclusion the candidate is the buffered payloads, in order, joined by  *)
(* single spaces, and one request is spawned per match in it; otherwise    *)
(* nothing is dispatched and the buffer keeps the appended line.           *)
(***************************************************************************)
C2_Accumulating ==
    [][ (multi_line /\ Delivered /\ lines_buffer # << >>
         /\ get_content(message') # None) =>
        LET payload == get_content(message')[1]
            pushed  == Append(lines_buffer, payload)
            concl   == \/ Len(pushed) = line_limit
                       \/ /\ line_conclude_pattern # Lit(<< >>)
                          /\ is_match(line_conclude_pattern, payload)
            found   == match_groups(search_pattern, SpaceJoined(pushed))
        IN  IF concl
            THEN /\ candidate' = Some(SpaceJoined(pushed))
                 /\ lines_buffer' = << >>
                 /\ published' /\ params' = found
                 /\ Len(tasks') = Len(found)
                 /\ \A k \in 1..Len(found) :
                        /\ tasks'[k].group = found[k]
                        /\ tasks'[k].line = nread'
                        /\ tasks'[k].st = "inflight"
            ELSE /\ lines_buffer' = pushed
                 /\ candidate' = None
                 /\ ~published'
                 /\ tasks' = << >>
                 /\ pc' = "next" ]_vars

\* a window closed by the limit whose candidate holds two matches
C2_Witness ==
    /\ multi_line /\ HasPayload
    /\ line_conclude_pattern = Lit(<< >>)
    /\ Len(before) + 1 = line_limit
    /\ Len(before) >= 1
    /\ candidate = Some(SpaceJoined(Append(before, Payload)))
    /\ Len(params) = 2
    /\ Len(tasks) = 2
    /\ pc = "join"

(***************************************************************************)
(* C3 (as claimed): with line_limit = 1 the init line alone meets the      *)
(* limit: the candidate is evaluated after exactly the init line and the   *)
(* buffer is empty again before the next payload is handled.               *)
(***************************************************************************)
C3_LimitOneEvaluatesInitLine ==
    (multi_line /\ line_limit = 1 /\ HasPayload /\ before = << >>
     /\ is_match(line_init_pattern, Payload)) =>
        /\ candidate = Some(Payload)
        /\ published
        /\ lines_buffer = << >>

(***************************************************************************)
(* C4: once the buffer has concluded (by the conclude pattern or by the    *)
(* limit) it is empty, whether or not the candidate matched; a payload     *)
(* handled next is discarded without dispatch unless it matches the init   *)
(* pattern, and then it alone is in the buffer.                            *)
(***************************************************************************)
C4_ConclusionClearsBuffer ==
    /\ [](multi_line /\ candidate # None => lines_buffer = << >>)
    /\ [][ (multi_line /\ candidate # None /\ Delivered
            /\ get_content(message') # None) =>
           LET payload == get_content(message')[1]
           IN  /\ ~published'
               /\ tasks' = << >>
               /\ lines_buffer' = IF is_match(line_init_pattern, payload)
                                  THEN << payload >> ELSE << >> ]_vars

\* a window closed by the conclude pattern, short of the limit, whose
\* candidate does not match the search pattern
C4_Witness ==
    /\ multi_line /\ HasPayload
    /\ candidate # None
    /\ params = << >>
    /\ Len(before) + 1 < line_limit
    /\ is_match(line_conclude_pattern, Payload)
    /\ lines_buffer = << >>
    /\ handled = nread

(***************************************************************************)
(* C5.  The scenario: init pattern, no conclude pattern, line_limit 4, and *)
(* payloads of which only the second matches the init pattern; Fed(k)      *)
(* holds when the k-th of them has just been handled.                      *)
(***************************************************************************)
Fed(k) ==
    /\ multi_line /\ line_limit = 4 /\ line_conclude_pattern = Lit(<< >>)
    /\ HasPayload /\ payloads = k
    /\ Len(before) = IF k <= 2 THEN 0 ELSE k - 2
    /\ is_match(line_init_pattern, Payload) <=> (k = 2)
    /\ \A i \in 2..Len(before) : ~is_match(line_init_pattern, before[i])

\* C5 (as claimed): the fourth payload brings the buffer to size 4 and
\* concludes it
C5_FourthPayloadConcludes ==
    Fed(4) => /\ published
              /\ candidate # None
              /\ lines_buffer = << >>

\* C5 (amended): the first payload, handled while Idle, is discarded and not
\* buffered: the first four payloads dispatch nothing, and the fifth brings
\* the buffer to size 4 and concludes it, the candidate being payloads two to
\* five joined by single spaces
C5_FifthPayloadConcludes ==
    /\ \A k \in 1..4 :
          Fed(k) => /\ ~published
                    /\ candidate = None
                    /\ TasksOf(nread) = << >>
                    /\ Len(lines_buffer) = k - 1
    /\ Fed(5) =>
          LET lines == Append(before, Payload)
          IN  /\ Len(lines) = 4
              /\ published
              /\ candidate = Some(SpaceJoined(lines))
              /\ params = match_groups(search_pattern, SpaceJoined(lines))
              /\ lines_buffer = << >>

C5_Witness ==
    /\ Fed(5)
    /\ published
    /\ Len(params) >= 1
    /\ pc = "join"

\* the requests that have been spawned and have not finished
InFlightTasks == {i \in DOMAIN tasks : tasks[i].st = "inflight"}

(***************************************************************************)
(* C6 (as claimed): in single-line mode the requests spawned for a payload *)
(* are as many as the non-overlapping matches of the search pattern in it, *)
(* the k-th request for the k-th match's capture-group set, and publish is *)
(* called only when there is a match.                                      *)
(***************************************************************************)
C6_SingleLineRequestPerMatch ==
    [][ (~multi_line /\ Delivered /\ get_content(message') # None) =>
        LET found == match_groups(search_pattern, get_content(message')[1])
        IN  /\ published' <=> (found # << >>)
            /\ Len(tasks') = Len(found)
            /\ \A k \in 1..Len(found) :
                   /\ tasks'[k].set = k
                   /\ tasks'[k].group = found[k] ]_vars

(***************************************************************************)
(* C7 (as claimed): a publish call with N capture-group sets has spawned   *)
(* exactly N requests, one per set and none twice, when it suspends, and   *)
(* it returns only with every one of them finished.                        *)
(***************************************************************************)
C7_PublishStartsOnePerSet ==
    /\ (published /\ pc # "next" /\ pc # "done" /\ pc # "failed") =>
          /\ Len(TasksOf(nread)) = Len(params)
          /\ \A k \in 1..Len(params) : TasksOf(nread)[k].set = k
    /\ (published /\ handled = nread) => InFlightTasks = {}

(***************************************************************************)
(* C8 (as claimed): a failure in dispatching one capture-group set (the    *)
(* request failing, or its body or headers failing to build) leaves the    *)
(* sibling requests issued, does not reach the caller of publish and does  *)
(* not stop the consumer loop.                                             *)
(***************************************************************************)
C8_DispatchFaultIsolation ==
    /\ pc # "panicked"
    /\ \A k \in 1..Len(params) :
          (published /\ handled < nread) =>
              \E i \in DOMAIN tasks : tasks[i].line = nread /\ tasks[i].set = k

(***************************************************************************)
(* C9: requests are in flight only while the consumer is inside the        *)
(* handle_msg call of the line they were spawned for; they are at most as  *)
(* many as that line's matches; and while any is in flight no line is      *)
(* read and the buffer does not change.                                    *)
(***************************************************************************)
C9_IntakeSerialised ==
    /\ [](\A i \in InFlightTasks :
            /\ tasks[i].line = nread
            /\ pc \in {"join", "panicked"}
            /\ handled < nread)
    /\ [](Cardinality(InFlightTasks) <= Len(params))
    /\ [][ InFlightTasks # {} =>
            /\ nread' = nread
            /\ message' = message
            /\ lines_buffer' = lines_buffer ]_vars

\* two requests of one line, one finished and one still in flight
C9_Witness ==
    /\ pc = "join"
    /\ Len(tasks) = 2
    /\ Cardinality(InFlightTasks) = 1
    /\ \A i \in DOMAIN tasks : tasks[i].line = nread

(***************************************************************************)
(* C10 (as claimed): while a spawned request has not completed, publish    *)
(* has not returned and no further line is handled; and when every         *)
(* dispatched request has completed, the consumer either goes on or has    *)
(* left the loop with every delivered line handled.                        *)
(***************************************************************************)
C10_StallsOnlyOnPendingRequest ==
    /\ InFlightTasks # {} => (handled < nread /\ pc # "next")
    /\ (\A i \in DOMAIN tasks : tasks[i].st \in {"ok", "err"}) =>
          \/ pc \in {"next", "join"}
          \/ pc \in {"done", "failed"} /\ handled = nread

(***************************************************************************)
(* get_content called on its own, on every raw line of at most MaxRaw      *)
(* characters over ExtractChars.                                           *)
(***************************************************************************)
Strings(chars, n) == UNION {[1..k -> chars] : k \in 0..n}

ExtractChars == {":", " ", "a"}

ExtractInit ==
    /\ ProgramInit
    /\ fn = ""
    /\ arg \in Strings(ExtractChars, MaxRaw)
    /\ result = None

CallGetContent ==
    /\ fn = ""
    /\ fn' = "get_content"
    /\ result' = get_content(arg)
    /\ UNCHANGED << arg, program >>

ExtractSpec == ExtractInit /\ [][CallGetContent]_vars

\* C11 (as claimed): a raw line with no ':' after its first character gives
\* None, and a raw line ":" + prefix + ":" + rest gives trim(rest), for every
\* prefix and every rest
C11_ExtractEveryPrefix ==
    fn = "get_content" =>
        /\ (\A i \in 2..Len(arg) : arg[i] # ":") => result = None
        /\ \A i \in 2..Len(arg) :
              (arg[1] = ":" /\ arg[i] = ":") =>
                  result = Some(Trim(SubSeq(arg, i + 1, Len(arg))))

\* C11 (amended): a raw line with no ':' after its first character gives
\* None, and a raw line ":" + prefix + ":" + rest gives trim(rest) for every
\* rest and every prefix that holds no ':' (the line is cut at the first ':'
\* after its first character)
C11_ExtractColonFreePrefix ==
    fn = "get_content" =>
        /\ (\A i \in 2..Len(arg) : arg[i] # ":") => result = None
        /\ \A i \in 2..Len(arg) :
              (/\ arg[1] = ":" /\ arg[i] = ":"
               /\ \A j \in 2..(i - 1) : arg[j] # ":") =>
                  result = Some(Trim(SubSeq(arg, i + 1, Len(arg))))

\* ":a: a" gives "a": the prefix is skipped and the rest trimmed
C11_Witness ==
    /\ fn = "get_content"
    /\ arg = << ":", "a", ":", " ", "a" >>
    /\ result = Some(<< "a" >>)

(***************************************************************************)
(* templ_replace called on its own.  Templates are built from at most      *)
(* MaxPieces pieces, groups hold at most MaxValues values; the pieces and  *)
(* the values include placeholders, parts of placeholders and plain text.  *)
(***************************************************************************)
Placeholder(i) == << "$", "{", DigitChars[i + 1], "}" >>

TemplatePieces ==
    { Placeholder(0), Placeholder(1), Placeholder(2),
      << "a" >>, << "$" >>, << "{", "1", "}" >> }

Values ==
    { << >>, << "b" >>, << "$" >>,
      Placeholder(0), Placeholder(1), Placeholder(2) }

RenderTemplates == { Flatten(ps) : ps \in Strings(TemplatePieces, MaxPieces) }

RenderInit ==
    /\ ProgramInit
    /\ variant = "modules" /\ search_pattern = Dcd
    /\ headers["X-Api-Key"] = << "k" >>
    /\ fn = ""
    /\ arg \in RenderTemplates \X Strings(Values, MaxValues)
    /\ result = None

CallTemplReplace ==
    /\ fn = ""
    /\ fn' = "templ_replace"
    /\ result' = Some(templ_replace(arg[1], arg[2]))
    /\ UNCHANGED << arg, program >>

RenderSpec == RenderInit /\ [][CallTemplReplace]_vars

\* where tok occurs in s
Occurrences(s, tok) ==
    {p \in 1..(Len(s) - Len(tok) + 1) : SubSeq(s, p, p + Len(tok) - 1) = tok}

\* s with every occurrence of tok replaced by v, the last occurrence first
RECURSIVE Substituted(_, _, _)
Substituted(s, tok, v) ==
    LET occ == Occurrences(s, tok)
    IN  IF occ = {} THEN s
        ELSE LET p == CHOOSE q \in occ : \A r \in occ : q >= r
             IN  Substituted(SubSeq(s, 1, p - 1), tok, v)
                 \o v \o SubSeq(s, p + Len(tok), Len(s))

\* t after the passes for the indices from, from + 1, ..., n - 1
RECURSIVE Passes(_, _, _, _)
Passes(t, values, from, n) ==
    IF n <= from THEN t
    ELSE Substituted(Passes(t, values, from, n - 1),
                     Placeholder(n - 1), values[n])

(***************************************************************************)
(* C12: templ_replace(template, values) is the template after the passes   *)
(* i = 0, 1, ..., len(values) - 1, each replacing every "${i}" in the      *)
(* result of the pass before by values[i].  So a placeholder "${j}" with   *)
(* j >= len(values) stays, a group whose indices have no placeholder       *)
(* changes nothing, and a "${j}" brought in by values[i] is substituted    *)
(* exactly when i < j < len(values).                                       *)
(***************************************************************************)
C12_RenderIsSequentialPasses ==
    fn = "templ_replace" =>
        LET t == arg[1]
            values == arg[2]
            n == Len(values)
            out == result[1]
        IN  /\ out = Passes(t, values, 0, n)
            /\ \A j \in n..2 :
                  Cardinality(Occurrences(out, Placeholder(j)))
                      >= Cardinality(Occurrences(t, Placeholder(j)))
            /\ (\A i \in 0..(n - 1) : Occurrences(t, Placeholder(i)) = {})
                  => out = t
            /\ \A i \in 0..(n - 1) : \A j \in 0..2 :
                  (t = Placeholder(i) /\ values[i + 1] = Placeholder(j)) =>
                      out = IF i < j /\ j < n
                            THEN Passes(values[j + 1], values, j + 1, n)
                            ELSE Placeholder(j)

\* "${0}" with values ["${1}", "b"]: the placeholder brought in by values[0]
\* is substituted by the pass for index 1
C12_Witness ==
    /\ fn = "templ_replace"
    /\ arg = << Placeholder(0), << Placeholder(1), << "b" >> >> >>
    /\ result = Some(<< "b" >>)

(***************************************************************************)
(* The program started with pattern strings that may not compile: it       *)
(* begins before MessageHandler::new, which main.rs lets succeed on any    *)
(* strings (it stores them) and message_handler.rs lets panic on a search  *)
(* pattern that does not compile.                                          *)
(***************************************************************************)
PatternInit ==
    /\ \/ /\ variant = "main_rs"
          /\ multi_line \in BOOLEAN
          /\ search_pattern \in {Dcd, Invalid}
          /\ line_limit = 2
          /\ line_init_pattern \in {Lit(<< "S" >>), Invalid}
          /\ line_conclude_pattern \in {Lit(<< >>), Lit(<< "F" >>), Invalid}
          /\ template = << >>
          /\ headers = [h \in {"X-Api-Key"} |-> << "k" >>]
       \/ /\ variant = "modules"
          /\ multi_line = FALSE
          /\ search_pattern \in {Dcd, Opt, Invalid}
          /\ line_limit = 0
          /\ line_init_pattern = Lit(<< >>)
          /\ line_conclude_pattern = Lit(<< >>)
          /\ template \in Templates
          /\ headers \in HeaderMaps
    /\ lines_buffer = << >>
    /\ pc = "new"
    /\ nread = 0
    /\ handled = 0
    /\ tasks = << >>
    /\ message = << >>
    /\ payloads = 0
    /\ before = << >>
    /\ candidate = None
    /\ params = << >>
    /\ published = FALSE
    /\ NoCall

\* MessageHandler::new
Construct ==
    /\ pc = "new"
    /\ pc' = IF variant = "modules" /\ ~Compiles(search_pattern)
             THEN "panicked" ELSE "next"
    /\ UNCHANGED << call, config, lines_buffer, nread, handled, tasks,
                    message, payloads, before, candidate, params, published >>

PatternNext == Construct \/ Next

PatternSpec == PatternInit /\ [][PatternNext]_vars

AllCompile ==
    /\ Compiles(search_pattern)
    /\ Compiles(line_init_pattern)
    /\ Compiles(line_conclude_pattern)

\* the handler has been constructed
Constructed == pc # "new" /\ ~(pc = "panicked" /\ nread = 0)

(***************************************************************************)
(* C13 (as claimed): a search, init or conclude pattern that does not      *)
(* compile makes the construction of the handler fail, so a constructed    *)
(* handler holds only patterns that compile and no handle_msg call fails   *)
(* because of a pattern.                                                   *)
(***************************************************************************)
C13_InvalidPatternFailsConstruction ==
    /\ Constructed => AllCompile
    /\ (pc = "panicked" /\ nread > 0) => AllCompile

\* nothing of the consumer, the handler or the dispatches changes
Halted ==
    /\ pc' = pc
    /\ nread' = nread
    /\ handled' = handled
    /\ tasks' = tasks
    /\ lines_buffer' = lines_buffer
    /\ published' = published

(***************************************************************************)
(* C14: once the stream has yielded an error the loop is left with it: no  *)
(* further line is read or handled and no request is spawned; the end of   *)
(* the stream leaves the loop without error.  Either way the lines read    *)
(* before have all been handled and no request is in flight.               *)
(***************************************************************************)
C14_StreamErrorEndsLoop ==
    /\ [][ (pc \in {"failed", "done"}) => Halted ]_vars
    /\ [][ (pc' \in {"failed", "done"}) =>
             (pc \in {"next", "failed", "done"}) ]_vars
    /\ [](pc \in {"failed", "done"} =>
            /\ InFlightTasks = {}
            /\ handled = nread)

\* the stream fails in the middle of an accumulation window
C14_Witness ==
    /\ pc = "failed"
    /\ nread >= 2
    /\ lines_buffer # << >>
    /\ handled = nread

\* the latest call concluded the buffer and its candidate did not match
ConcludedWithoutMatch ==
    /\ multi_line /\ HasPayload
    /\ candidate # None
    /\ params = << >>

\* C15 (as claimed): when a concluded buffer's candidate does not match the
\* search pattern the buffer is left un-cleared: it still holds the
\* accumulated lines after the call
C15_UnmatchedBufferKept ==
    ConcludedWithoutMatch => lines_buffer = Append(before, Payload)

\* C15 (amended): when a concluded buffer's candidate does not match the
\* search pattern the buffer is cleared all the same: it is empty after the
\* call, the accumulated lines are dropped and nothing is dispatched
C15_UnmatchedBufferCleared ==
    ConcludedWithoutMatch =>
        /\ lines_buffer = << >>
        /\ candidate = Some(SpaceJoined(Append(before, Payload)))
        /\ ~is_match(search_pattern, candidate[1])
        /\ TasksOf(nread) = << >>
        /\ handled = nread

\* a window closed by the limit whose candidate does not match
C15_Witness ==
    /\ ConcludedWithoutMatch
    /\ line_conclude_pattern = Lit(<< >>)
    /\ Len(before) + 1 = line_limit
    /\ lines_buffer = << >>

\* C16: in multi-line mode, for every line_limit >= 1 and every sequence of
\* handled payloads, the buffer never holds more than line_limit lines when
\* handle_msg returns
C16_BufferWithinLimit ==
    (multi_line /\ line_limit >= 1 /\ handled = nread) =>
        Len(lines_buffer) <= line_limit

\* the latest raw line carried no payload
ExtractionMiss == nread > 0 /\ get_content(message) = None

\* C17: a raw line that carries no payload is skipped with no effect, in
\* single-line and in multi-line mode: the buffer is as it was before the
\* call (the line neither counts toward line_limit nor opens or concludes a
\* window), nothing is matched, publish is not called, no request is spawned
\* and handle_msg returns at once
C17_MissIsSkipped ==
    ExtractionMiss =>
        /\ lines_buffer = before
        /\ candidate = None
        /\ params = << >>
        /\ ~published
        /\ TasksOf(nread) = << >>
        /\ handled = nread

\* a miss arriving when one more line would have filled the window
C17_Witness ==
    /\ ExtractionMiss
    /\ multi_line
    /\ before # << >>
    /\ Len(before) + 1 = line_limit
    /\ lines_buffer = before

\* C18: triggers are evaluated only in their own state.  While
\* Accumulating, a payload matching the init pattern does not restart the
\* window: it is appended like any other line and counts toward line_limit
\* (the window concludes on it exactly when it fills the limit or matches a
\* configured conclude pattern).  While Idle, a payload matching the conclude
\* pattern has no effect unless it also matches the init pattern, and then it
\* opens a window and does not conclude it.
C18_TriggersOnlyInOwnState ==
    (multi_line /\ HasPayload) =>
        /\ (before # << >> /\ is_match(line_init_pattern, Payload)) =>
              LET window == Append(before, Payload)
              IN  IF \/ Len(window) = line_limit
                     \/ /\ line_conclude_pattern # Lit(<< >>)
                        /\ is_match(line_conclude_pattern, Payload)
                  THEN /\ candidate = Some(SpaceJoined(window))
                       /\ published
                       /\ lines_buffer = << >>
                  ELSE /\ candidate = None
                       /\ ~published
                       /\ lines_buffer = window
        /\ (before = << >> /\ is_match(line_conclude_pattern, Payload)) =>
              /\ candidate = None
              /\ ~published
              /\ TasksOf(nread) = << >>
              /\ lines_buffer = IF is_match(line_init_pattern, Payload)
                                THEN << Payload >> ELSE << >>

\* a window opened, and not concluded, by a payload matching both triggers,
\* then extended by a second payload matching the init pattern
C18_Witness ==
    /\ multi_line /\ HasPayload
    /\ line_conclude_pattern # Lit(<< >>)
    /\ Len(before) = 1
    /\ is_match(line_init_pattern, before[1])
    /\ is_match(line_conclude_pattern, before[1])
    /\ is_match(line_init_pattern, Payload)
    /\ lines_buffer = Append(before, Payload)

====
